---- MODULE Spec2Model ----
(***************************************************************************)
(* Deferred-shading example (src/src/deferred/main.rs).                    *)
(*                                                                         *)
(* The program is one sequential `main`: it creates the GPU resources      *)
(* (every fallible call is followed by `.unwrap()`), then loops: poll the  *)
(* window events, update camera and light positions, record the frame's    *)
(* clears and draws into the renderer's command buffer, submit the buffer  *)
(* to the device and swap.  `pc` is the position in `main`.                *)
(*                                                                         *)
(* Numbers: an f32 is modelled as a fixed-point integer with Q units per   *)
(* 1.0 (so 0.001 is Q \div 1000 units).  GPU memory is modelled per        *)
(* texture as the set of passes that have written it since its last clear. *)
(***************************************************************************)
EXTENDS Integers, Sequences, FiniteSets, TLC

(***************************************************************************)
(* Bounds of the model.                                                    *)
(***************************************************************************)
\* distinct random seeds the terrain may be generated from
NumSeeds == 2
\* clock readings are 0, TimeStep, ..., MaxTicks * TimeStep (fixed-point seconds)
MaxTicks == 1
\* events delivered by one poll_events() call
MaxPollEvents == 2
\* subdivisions of the terrain plane per axis (the program uses 256)
PlaneSubdiv == 4
\* heights probed by calculate_color range over -MaxHeight .. MaxHeight (whole units)
MaxHeight == 26

(***************************************************************************)
(* Fixed-point arithmetic standing in for f32.                             *)
(***************************************************************************)
Q == 10000

Abs(v) == IF v < 0 THEN -v ELSE v

\* a * b of two fixed-point numbers
Mul(a, b) == (a * b) \div Q

\* a / b of two fixed-point numbers
Div(a, b) == (a * Q) \div b

Clamp(v, lo, hi) == IF v < lo THEN lo ELSE IF v > hi THEN hi ELSE v

RECURSIVE SqrtIter(_, _)
SqrtIter(v, g) ==
    LET n == (g + v \div g) \div 2
    IN  IF n >= g THEN g ELSE SqrtIter(v, n)

\* floor of the square root of a non-negative integer (Newton iteration)
ISqrt(v) == IF v <= 0 THEN 0 ELSE SqrtIter(v, v)

PI_FP == 31416
HALF_PI_FP == 15708
TWO_PI_FP == 62832

\* cos on [0, pi/2]: 1 - x^2/2 + x^4/24 - x^6/720 + x^8/40320
CosPoly(a) ==
    LET x2 == Mul(a, a)
        t4 == (Q \div 720) - (x2 \div 40320)
        t3 == (Q \div 24) - Mul(x2, t4)
        t2 == (Q \div 2) - Mul(x2, t3)
    IN  Q - Mul(x2, t2)

\* f32::cos, by reduction of the angle to [0, pi/2]
Cos(theta) ==
    LET a == theta % TWO_PI_FP
        b == IF a > PI_FP THEN TWO_PI_FP - a ELSE a
    IN  IF b > HALF_PI_FP THEN -CosPoly(PI_FP - b) ELSE CosPoly(b)

\* f32::sin
Sin(theta) == Cos(theta - HALF_PI_FP)

(***************************************************************************)
(* noise::perlin2 (external crate): gradient noise.  Each lattice point    *)
(* has a gradient picked by a hash of the seed; the value at a point is    *)
(* the sum of the four surrounding surflets, scaled and clamped to -1..1.  *)
(* It is 0 at every lattice point.                                         *)
(***************************************************************************)
Seeds == 1..NumSeeds

GRADIENTS ==
    << <<Q, 0>>, <<-Q, 0>>, <<0, Q>>, <<0, -Q>>,
       <<7071, 7071>>, <<-7071, 7071>>, <<7071, -7071>>, <<-7071, -7071>> >>

SeedHash(seed, wx, wy) == ((seed * 7 + wx * 3 + wy * 5 + wx * wy * seed) % 8) + 1

Surflet(seed, wx, wy, fx, fy) ==
    LET attn == Q - (Mul(fx, fx) + Mul(fy, fy))
        g == GRADIENTS[SeedHash(seed, wx, wy)]
        a2 == Mul(attn, attn)
        a4 == Mul(a2, a2)
    IN  IF attn > 0 THEN Mul(a4, Mul(fx, g[1]) + Mul(fy, g[2])) ELSE 0

perlin2(seed, x, y) ==
    LET wx == x \div Q
        wy == y \div Q
        fx == x - wx * Q
        fy == y - wy * Q
        s == Surflet(seed, wx, wy, fx, fy)
             + Surflet(seed, wx + 1, wy, fx - Q, fy)
             + Surflet(seed, wx, wy + 1, fx, fy - Q)
             + Surflet(seed, wx + 1, wy + 1, fx - Q, fy - Q)
    IN  Clamp((s * 31605) \div Q, -Q, Q)

(***************************************************************************)
(* Program constants.                                                      *)
(***************************************************************************)
NUM_LIGHTS == 250

\* `const int NUM_LIGHTS` of the light and of the emitter vertex shader
LIGHT_VS_NUM_LIGHTS == 250
EMITTER_VS_NUM_LIGHTS == 250

\* terrain_scale = Vector3::new(25.0, 25.0, 25.0), in whole units
TERRAIN_SCALE == <<25, 25, 25>>

\* the finite-difference step 0.001 of calculate_normal
NORMAL_STEP == Q \div 1000

LightIds == 0 .. (NUM_LIGHTS - 1)

(***************************************************************************)
(* calculate_normal                                                        *)
(***************************************************************************)
Cross(u, v) ==
    << Mul(u[2], v[3]) - Mul(u[3], v[2]),
       Mul(u[3], v[1]) - Mul(u[1], v[3]),
       Mul(u[1], v[2]) - Mul(u[2], v[1]) >>

\* |v|; the squares are quartered before they are summed to stay within
\* 32-bit integers
Length(v) ==
    2 * ISqrt((v[1] * v[1]) \div 4 + (v[2] * v[2]) \div 4 + (v[3] * v[3]) \div 4)

Normalize(v) ==
    LET len == Length(v)
    IN  << Div(v[1], len), Div(v[2], len), Div(v[3], len) >>

\* dzdx and dzdy of calculate_normal: central differences of the noise field
Gradient(seed, x, y) ==
    LET s_x0 == x - NORMAL_STEP
        s_x1 == x + NORMAL_STEP
        s_y0 == y - NORMAL_STEP
        s_y1 == y + NORMAL_STEP
    IN  << Div(perlin2(seed, s_x1, y) - perlin2(seed, s_x0, y), s_x1 - s_x0),
           Div(perlin2(seed, x, s_y1) - perlin2(seed, x, s_y0), s_y1 - s_y0) >>

\* faulty variant of calculate_normal: the tangents crossed in the other order
MutNormalSwappedCross(seed, x, y) ==
    LET g == Gradient(seed, x, y)
    IN  Normalize(Cross(<<0, Q, g[2]>>, <<Q, 0, g[1]>>))

calculate_normal(seed, x, y) ==
    LET g == Gradient(seed, x, y)
    IN  Normalize(Cross(<<Q, 0, g[1]>>, <<0, Q, g[2]>>))

(***************************************************************************)
(* calculate_color                                                         *)
(***************************************************************************)
WHITE == <<9000, 9000, 9000>>
GREY == <<7000, 7000, 7000>>
GREEN == <<2000, 7000, 2000>>
BLUE == <<2000, 2000, 7000>>

\* faulty variant of calculate_color: the band borders taken with >=
MutColorInclusive(height) ==
    IF height >= 8 * Q THEN WHITE
    ELSE IF height >= 0 THEN GREY
    ELSE IF height >= -5 * Q THEN GREEN
    ELSE BLUE

calculate_color(height) ==
    IF height > 8 * Q THEN WHITE
    ELSE IF height > 0 THEN GREY
    ELSE IF height > -5 * Q THEN GREEN
    ELSE BLUE

(***************************************************************************)
(* Terrain vertices: the closure mapped over the plane's shared vertices.  *)
(***************************************************************************)
\* coordinate of the i-th shared vertex of the subdivided plane, in -1 .. 1
PlaneCoord(i) == -Q + (2 * Q * i) \div PlaneSubdiv

PlaneCoords == { PlaneCoord(i) : i \in 0 .. PlaneSubdiv }

TerrainVertex(seed, x, y) ==
    LET h == TERRAIN_SCALE[3] * perlin2(seed, x, y)
    IN  [ pos |-> << TERRAIN_SCALE[1] * x, TERRAIN_SCALE[2] * y, h >>,
          normal |-> calculate_normal(seed, x, y),
          color |-> calculate_color(h) ]

(***************************************************************************)
(* Light placement.                                                        *)
(***************************************************************************)
\* the clock readings precise_time_s() returns in the model
TimeStep == 25000

Times == { k * TimeStep : k \in 0 .. MaxTicks }

\* r = 1 - i*i / (NUM_LIGHTS*NUM_LIGHTS), kept exactly, in units of
\* 1 / (NUM_LIGHTS*NUM_LIGHTS)
LightRadius(i) == (NUM_LIGHTS * NUM_LIGHTS) - i * i

\* 0.2*time + i
LightAngle(i, time) == (2 * time) \div 10 + i * Q

\* (x, y) of light i in normalized terrain space
LightXY(i, time) ==
    << (LightRadius(i) * Cos(LightAngle(i, time))) \div (NUM_LIGHTS * NUM_LIGHTS),
       (LightRadius(i) * Sin(LightAngle(i, time))) \div (NUM_LIGHTS * NUM_LIGHTS) >>

\* faulty variant of LightPos: r = 1 - i/NUM_LIGHTS
MutLightPosLinearRadius(seed, i, time, p) ==
    LET r == Q - (i * Q) \div NUM_LIGHTS
        x == Mul(r, Cos(LightAngle(i, time)))
        y == Mul(r, Sin(LightAngle(i, time)))
        h == perlin2(seed, x, y)
    IN  << TERRAIN_SCALE[1] * x, TERRAIN_SCALE[2] * y,
           TERRAIN_SCALE[3] * h + Q \div 2, p[4] >>

\* the body of the `for (i, p) in light_pos_vec` loop: the new value of p
\* (p[3] is never assigned)
LightPos(seed, i, time, p) ==
    LET xy == LightXY(i, time)
        h == perlin2(seed, xy[1], xy[2])
    IN  << TERRAIN_SCALE[1] * xy[1], TERRAIN_SCALE[2] * xy[2],
           TERRAIN_SCALE[3] * h + Q \div 2, p[4] >>

(***************************************************************************)
(* The plain numeric routines, applied to inputs drawn from bounded sets.  *)
(***************************************************************************)
Heights == { (k * Q) \div 2 : k \in (-2 * MaxHeight) .. (2 * MaxHeight) }

(***************************************************************************)
(* GPU resources.                                                          *)
(***************************************************************************)
\* the G-buffer textures, the result texture, and the window's two planes
TextureNames == {"pos", "normal", "diffuse", "depth", "frame", "back", "back_depth"}

BatchNames == {"terrain", "blit", "light", "emitter"}

\* gfx::Frame of create_g_buffer
G_BUFFER == [colors |-> {"pos", "normal", "diffuse"}, depth |-> "depth"]

\* gfx::Frame of create_res_buffer: its depth plane is the texture_depth it is given
RES_BUFFER == [colors |-> {"frame"}, depth |-> G_BUFFER.depth]

\* the window's frame (wrap)
WINDOW == [colors |-> {"back"}, depth |-> "back_depth"]

Frame(target) ==
    CASE target = "g_buffer" -> G_BUFFER
      [] target = "res_buffer" -> RES_BUFFER
      [] target = "window" -> WINDOW

\* DrawState of the terrain batch: depth(LessEqual, true)
TERRAIN_STATE == [depth_test |-> "LessEqual", depth_write |-> TRUE, blend |-> "None"]

\* DrawState of the blit batch: DrawState::new()
BLIT_STATE == [depth_test |-> "None", depth_write |-> FALSE, blend |-> "None"]

\* faulty variant of CUBE_STATE: no blending
MutCubeStateNoBlend == [depth_test |-> "LessEqual", depth_write |-> FALSE, blend |-> "None"]

\* DrawState shared by the light and the emitter batch:
\* depth(LessEqual, false).blend(BlendPreset::Add)
CUBE_STATE == [depth_test |-> "LessEqual", depth_write |-> FALSE, blend |-> "Add"]

DrawState(b) ==
    CASE b = "terrain" -> TERRAIN_STATE
      [] b = "blit" -> BLIT_STATE
      [] OTHER -> CUBE_STATE

\* length of the u_LightPosBlock array the linked program of batch b declares
ShaderNumLights(b) ==
    CASE b = "light" -> LIGHT_VS_NUM_LIGHTS
      [] b = "emitter" -> EMITTER_VS_NUM_LIGHTS
      [] OTHER -> 0

\* contents of a texture that was never written
UNDEFINED == {<<"undefined", -1>>}

NoTexture == [created |-> FALSE, src |-> "-", layers |-> {}]

ZeroVec == [i \in LightIds |-> <<0, 0, 0, 0>>]

NoBuffer == [created |-> FALSE, len |-> 0, written |-> FALSE, data |-> ZeroVec]

(***************************************************************************)
(* State.                                                                  *)
(***************************************************************************)
VARIABLES
    pc,                \* position in main
    seed,              \* the noise seed (0: not drawn yet)
    textures,          \* texture name -> [created, src, layers]
    programs,          \* batch name -> [linked, num_lights]
    batch,             \* batch name -> [made, tex, cam_pos]
    light_pos_buffer,  \* the GPU buffer behind u_LightPosBlock
    light_pos_vec,     \* the CPU-side light positions
    debug_buf,         \* "None" or the name of the texture to show
    time,              \* the frame's clock reading
    cmdbuf,            \* the renderer's command buffer
    front,             \* what the window displays
    polled,            \* events this poll has delivered so far
    last_sel,          \* history: the latest selection key processed
    quit_event,        \* history: a Closed or Escape event was reached
    failed,            \* history: the operation whose error aborted main
    frame,             \* history: parity of the number of the frame being rendered
    attempts,          \* history: attempts of each fallible operation
    probe              \* last application of a numeric routine (SpecFn only)

vars ==
    << pc, seed, textures, programs, batch, light_pos_buffer, light_pos_vec,
       debug_buf, time, cmdbuf, front, polled, last_sel, quit_event, failed,
       frame, attempts, probe >>

gpu == << textures, light_pos_buffer, front >>
history == << last_sel, quit_event, failed, frame, attempts >>

\* the fallible calls of the set-up, and the steps between them, in program order
SetupOrder ==
    << "init_window", "tex_pos", "tex_normal", "tex_diffuse", "tex_depth",
       "tex_frame", "gen_seed", "terrain_link", "terrain_batch", "blit_link",
       "blit_batch", "light_buffer", "light_link", "light_batch",
       "emitter_link", "emitter_batch" >>

DrawOps == {"draw_terrain", "draw_light", "draw_emitter", "dbg_blit", "blit_result"}

FallibleSetup ==
    { SetupOrder[k] : k \in 1 .. Len(SetupOrder) } \ {"gen_seed", "light_buffer"}

FallibleOps == FallibleSetup \cup DrawOps

\* the statement that follows set-up step p
AfterSetup(p) ==
    LET k == CHOOSE j \in 1 .. Len(SetupOrder) : SetupOrder[j] = p
    IN  IF k = Len(SetupOrder) THEN "poll" ELSE SetupOrder[k + 1]

NoProbe == [fn |-> "none", seed |-> 0, a |-> 0, b |-> 0, out |-> << >>]

Init ==
    /\ pc = "init_window"
    /\ seed = 0
    /\ textures = [n \in TextureNames |-> NoTexture]
    /\ programs = [b \in BatchNames |-> [linked |-> FALSE, num_lights |-> 0]]
    /\ batch = [b \in BatchNames |-> [made |-> FALSE, tex |-> "-", cam_pos |-> <<0, 0, 0>>]]
    /\ light_pos_buffer = NoBuffer
    /\ light_pos_vec = ZeroVec
    /\ debug_buf = "None"
    /\ time = 0
    /\ cmdbuf = << >>
    /\ front = [src |-> "-", layers |-> UNDEFINED]
    /\ polled = 0
    /\ last_sel = "none"
    /\ quit_event = FALSE
    /\ failed = "-"
    /\ frame = 0
    /\ attempts = [o \in FallibleOps |-> 0]
    /\ probe = NoProbe

(***************************************************************************)
(* `.unwrap()`: the outcome of a fallible call.                            *)
(***************************************************************************)
\* faulty variant of UnwrapErr: the failed call is tried again
MutUnwrapRetries(op) ==
    /\ pc' = pc
    /\ failed' = failed
    /\ attempts' = [attempts EXCEPT ![op] = @ + 1]

\* Err(_).unwrap(): main panics at this call
UnwrapErr(op) ==
    /\ pc' = "panicked"
    /\ failed' = op
    /\ attempts' = [attempts EXCEPT ![op] = @ + 1]

\* Ok(v).unwrap(): main goes on with the statement `next`
UnwrapOk(op, next) ==
    /\ pc' = next
    /\ failed' = failed
    /\ attempts' = [attempts EXCEPT ![op] = @ + 1]

(***************************************************************************)
(* Set-up.                                                                 *)
(***************************************************************************)
\* gfx_window_glutin::init(WindowBuilder ... .build().unwrap()), create_renderer,
\* Context::new
InitWindow ==
    /\ pc = "init_window"
    /\ \/ /\ UnwrapOk("init_window", AfterSetup(pc))
          /\ textures' = [textures EXCEPT
                 !["back"] = [created |-> TRUE, src |-> "-", layers |-> UNDEFINED],
                 !["back_depth"] = [created |-> TRUE, src |-> "-", layers |-> UNDEFINED]]
       \/ /\ UnwrapErr("init_window")
          /\ UNCHANGED textures
    /\ UNCHANGED << seed, programs, batch, light_pos_buffer, light_pos_vec, debug_buf,
                    time, cmdbuf, front, polled, last_sel, quit_event, frame, probe >>

TextureOf(p) ==
    CASE p = "tex_pos" -> "pos"
      [] p = "tex_normal" -> "normal"
      [] p = "tex_diffuse" -> "diffuse"
      [] p = "tex_depth" -> "depth"
      [] p = "tex_frame" -> "frame"

\* factory.create_texture(info).unwrap() of create_g_buffer and create_res_buffer
CreateTexture ==
    /\ pc \in {"tex_pos", "tex_normal", "tex_diffuse", "tex_depth", "tex_frame"}
    /\ \/ /\ UnwrapOk(pc, AfterSetup(pc))
          /\ textures' = [textures EXCEPT
                 ![TextureOf(pc)] = [created |-> TRUE, src |-> "-", layers |-> UNDEFINED]]
       \/ /\ UnwrapErr(pc)
          /\ UNCHANGED textures
    /\ UNCHANGED << seed, programs, batch, light_pos_buffer, light_pos_vec, debug_buf,
                    time, cmdbuf, front, polled, last_sel, quit_event, frame, probe >>

\* Seed::new(rand::thread_rng().gen())
GenSeed ==
    /\ pc = "gen_seed"
    /\ seed' \in Seeds
    /\ pc' = AfterSetup(pc)
    /\ UNCHANGED << textures, programs, batch, light_pos_buffer, light_pos_vec,
                    debug_buf, time, cmdbuf, front, polled, history, probe >>

BatchOf(p) ==
    CASE p \in {"terrain_link", "terrain_batch"} -> "terrain"
      [] p \in {"blit_link", "blit_batch"} -> "blit"
      [] p \in {"light_link", "light_batch"} -> "light"
      [] p \in {"emitter_link", "emitter_batch"} -> "emitter"

\* factory.link_program(VERTEX_SRC, FRAGMENT_SRC).unwrap()
LinkProgram ==
    /\ pc \in {"terrain_link", "blit_link", "light_link", "emitter_link"}
    /\ \/ /\ UnwrapOk(pc, AfterSetup(pc))
          /\ programs' = [programs EXCEPT
                 ![BatchOf(pc)] = [linked |-> TRUE, num_lights |-> ShaderNumLights(BatchOf(pc))]]
       \/ /\ UnwrapErr(pc)
          /\ UNCHANGED programs
    /\ UNCHANGED << seed, textures, batch, light_pos_buffer, light_pos_vec, debug_buf,
                    time, cmdbuf, front, polled, last_sel, quit_event, frame, probe >>

\* the texture the batch's parameters bind when the batch is made
InitialTex(b) == IF b = "blit" THEN "pos" ELSE "-"

\* context.make_batch(&program, data, &mesh, slice, &state).unwrap()
MakeBatch ==
    /\ pc \in {"terrain_batch", "blit_batch", "light_batch", "emitter_batch"}
    /\ \/ /\ UnwrapOk(pc, AfterSetup(pc))
          /\ batch' = [batch EXCEPT
                 ![BatchOf(pc)] = [made |-> TRUE, tex |-> InitialTex(BatchOf(pc)),
                                   cam_pos |-> <<0, 0, 0>>]]
       \/ /\ UnwrapErr(pc)
          /\ UNCHANGED batch
    /\ UNCHANGED << seed, textures, programs, light_pos_buffer, light_pos_vec, debug_buf,
                    time, cmdbuf, front, polled, last_sel, quit_event, frame, probe >>

\* factory.create_buffer::<[f32; 4]>(NUM_LIGHTS, BufferUsage::Stream)
CreateLightBuffer ==
    /\ pc = "light_buffer"
    /\ light_pos_buffer' = [created |-> TRUE, len |-> NUM_LIGHTS, written |-> FALSE,
                            data |-> ZeroVec]
    /\ pc' = AfterSetup(pc)
    /\ UNCHANGED << seed, textures, programs, batch, light_pos_vec, debug_buf, time,
                    cmdbuf, front, polled, history, probe >>

(***************************************************************************)
(* The main loop: program order.                                           *)
(***************************************************************************)
\* the statements between the event poll and the `match debug_buf`
BODY_HEAD == << "update_camera", "update_lights", "clear_g", "draw_terrain" >>

\* the arm `Some(ref tex)`
DEBUG_ARM == << "show_debug", "dbg_blit" >>

\* faulty variant of NONE_ARM: the result is blitted before the lights are drawn
MutNoneArmBlitFirst ==
    << "show_result", "blit_result", "res_clear", "draw_light", "draw_emitter" >>

\* the arm `None`
NONE_ARM == << "res_clear", "draw_light", "draw_emitter", "show_result", "blit_result" >>

Range(seq) == { seq[k] : k \in 1 .. Len(seq) }

Succ(seq, p, end) ==
    LET k == CHOOSE j \in 1 .. Len(seq) : seq[j] = p
    IN  IF k = Len(seq) THEN end ELSE seq[k + 1]

\* the statement that follows statement p of the loop body
AfterStmt(p) ==
    CASE p \in Range(BODY_HEAD) -> Succ(BODY_HEAD, p, "match")
      [] p \in Range(DEBUG_ARM) -> Succ(DEBUG_ARM, p, "submit")
      [] p \in Range(NONE_ARM) -> Succ(NONE_ARM, p, "submit")

(***************************************************************************)
(* Event poll.                                                             *)
(***************************************************************************)
\* "Other" is every event no arm of the match names
Events ==
    {"Closed", "Escape", "Numpad0", "Numpad1", "Numpad2", "Numpad3", "Numpad4", "Other"}

SelectionKeys == {"Numpad0", "Numpad1", "Numpad2", "Numpad3", "Numpad4"}

\* faulty variant of BreaksMain: Escape does not leave the loop
MutBreaksOnClosedOnly(e) == e = "Closed"

\* the arms that `break 'main`
BreaksMain(e) == e \in {"Closed", "Escape"}

\* faulty variant of DebugBufAfter: the selection keys are off by one
MutDebugBufShifted(e, cur) ==
    CASE e = "Numpad1" -> "pos"
      [] e = "Numpad2" -> "diffuse"
      [] e = "Numpad3" -> "normal"
      [] e = "Numpad4" -> "depth"
      [] e = "Numpad0" -> "None"
      [] OTHER -> cur

\* debug_buf after the match on event e
DebugBufAfter(e, cur) ==
    CASE e = "Numpad1" -> "pos"
      [] e = "Numpad2" -> "normal"
      [] e = "Numpad3" -> "diffuse"
      [] e = "Numpad4" -> "depth"
      [] e = "Numpad0" -> "None"
      [] OTHER -> cur

\* one iteration of `for event in wrap.window.poll_events()`
PollEvent ==
    /\ pc = "poll"
    /\ polled < MaxPollEvents
    /\ \E e \in Events :
          /\ IF BreaksMain(e)
                THEN pc' = "exited" /\ UNCHANGED debug_buf
                ELSE pc' = pc /\ debug_buf' = DebugBufAfter(e, debug_buf)
          /\ last_sel' = IF e \in SelectionKeys THEN e ELSE last_sel
          /\ quit_event' = (quit_event \/ e \in {"Closed", "Escape"})
    /\ polled' = polled + 1
    /\ UNCHANGED << seed, textures, programs, batch, light_pos_buffer, light_pos_vec,
                    time, cmdbuf, front, failed, frame, attempts, probe >>

\* poll_events() has no further event
PollDone ==
    /\ pc = "poll"
    /\ pc' = "update_camera"
    /\ polled' = 0
    /\ UNCHANGED << seed, textures, programs, batch, light_pos_buffer, light_pos_vec,
                    debug_buf, time, cmdbuf, front, history, probe >>

(***************************************************************************)
(* Per-frame updates.                                                      *)
(***************************************************************************)
\* "Slowly circle the center": (32 sin(0.05 t), 32 cos(0.05 t), 16)
CamPos(t) == << 32 * Sin(t \div 20), 32 * Cos(t \div 20), 16 * Q >>

\* let time = precise_time_s() as f32; "Update camera position".  The view and
\* transform matrices are functions of cam_pos and the constant projection; the
\* parameters are recorded by cam_pos.
UpdateCamera ==
    /\ pc = "update_camera"
    /\ \E t \in Times :
          /\ t >= time
          /\ time' = t
          /\ batch' = [batch EXCEPT !["terrain"].cam_pos = CamPos(t),
                                    !["light"].cam_pos = CamPos(t),
                                    !["emitter"].cam_pos = CamPos(t)]
    /\ pc' = AfterStmt(pc)
    /\ UNCHANGED << seed, textures, programs, light_pos_buffer, light_pos_vec, debug_buf,
                    cmdbuf, front, polled, history, probe >>

\* faulty variant of UpdateBuffer: the upload is lost
MutUpdateBufferDropped(buf, data, offset) == buf

\* factory.update_buffer(&buf, &data, offset)
UpdateBuffer(buf, data, offset) ==
    [buf EXCEPT !.written = TRUE,
                !.data = [i \in DOMAIN buf.data |->
                             IF (i - offset) \in DOMAIN data THEN data[i - offset]
                             ELSE buf.data[i]]]

\* "Update light positions" and the upload of light_pos_vec
UpdateLights ==
    /\ pc = "update_lights"
    /\ light_pos_vec' = [i \in DOMAIN light_pos_vec |->
                            LightPos(seed, i, time, light_pos_vec[i])]
    /\ light_pos_buffer' = UpdateBuffer(light_pos_buffer, light_pos_vec', 0)
    /\ pc' = AfterStmt(pc)
    /\ UNCHANGED << seed, textures, programs, batch, debug_buf, time, cmdbuf, front,
                    polled, history, probe >>

(***************************************************************************)
(* Recording the frame.                                                    *)
(***************************************************************************)
\* renderer.clear(clear_data, mask, target): the clear color is (0, 0, 0, 1)
ClearCmd(mask, target) ==
    [op |-> "clear", target |-> target, mask |-> mask, batch |-> "-", instances |-> 0,
     tex |-> "-", frame |-> frame]

\* renderer.draw / renderer.draw_instanced of batch b (instances = 0: not instanced);
\* the batch's parameters are read when the call is recorded
DrawCmd(b, instances, target) ==
    [op |-> "draw", target |-> target, mask |-> {}, batch |-> b,
     instances |-> instances, tex |-> batch[b].tex, frame |-> frame]

\* renderer.clear(clear_data, gfx::COLOR|gfx::DEPTH, &g_buffer)
ClearGBuffer ==
    /\ pc = "clear_g"
    /\ cmdbuf' = Append(cmdbuf, ClearCmd({"COLOR", "DEPTH"}, "g_buffer"))
    /\ pc' = AfterStmt(pc)
    /\ UNCHANGED << seed, textures, programs, batch, light_pos_buffer, light_pos_vec,
                    debug_buf, time, front, polled, history, probe >>

\* renderer.draw(&(&terrain, &context), &g_buffer).unwrap()
DrawTerrain ==
    /\ pc = "draw_terrain"
    /\ \/ /\ UnwrapOk("draw_terrain", AfterStmt(pc))
          /\ cmdbuf' = Append(cmdbuf, DrawCmd("terrain", 0, "g_buffer"))
       \/ /\ UnwrapErr("draw_terrain")
          /\ UNCHANGED cmdbuf
    /\ UNCHANGED << seed, textures, programs, batch, light_pos_buffer, light_pos_vec,
                    debug_buf, time, front, polled, last_sel, quit_event, frame, probe >>

\* faulty variant of MatchDebugBuf: the `None` arm is taken whatever is selected
MutMatchAlwaysNone ==
    /\ pc = "match"
    /\ pc' = NONE_ARM[1]
    /\ UNCHANGED << seed, textures, programs, batch, light_pos_buffer, light_pos_vec,
                    debug_buf, time, cmdbuf, front, polled, history, probe >>

\* match debug_buf { Some(ref tex) => ..., None => ... }
MatchDebugBuf ==
    /\ pc = "match"
    /\ pc' = IF debug_buf = "None" THEN NONE_ARM[1] ELSE DEBUG_ARM[1]
    /\ UNCHANGED << seed, textures, programs, batch, light_pos_buffer, light_pos_vec,
                    debug_buf, time, cmdbuf, front, polled, history, probe >>

\* "Show one of the immediate buffers": blit.params.tex = tex; clear the window
ShowDebug ==
    /\ pc = "show_debug"
    /\ batch' = [batch EXCEPT !["blit"].tex = debug_buf]
    /\ cmdbuf' = Append(cmdbuf, ClearCmd({"COLOR", "DEPTH"}, "window"))
    /\ pc' = AfterStmt(pc)
    /\ UNCHANGED << seed, textures, programs, light_pos_buffer, light_pos_vec, debug_buf,
                    time, front, polled, history, probe >>

\* faulty variant of RES_CLEAR_MASK: the depth plane is cleared as well
MutResClearMaskDepth == {"COLOR", "DEPTH"}

\* the mask of renderer.clear(clear_data, gfx::COLOR, &res_buffer)
RES_CLEAR_MASK == {"COLOR"}

ClearResBuffer ==
    /\ pc = "res_clear"
    /\ cmdbuf' = Append(cmdbuf, ClearCmd(RES_CLEAR_MASK, "res_buffer"))
    /\ pc' = AfterStmt(pc)
    /\ UNCHANGED << seed, textures, programs, batch, light_pos_buffer, light_pos_vec,
                    debug_buf, time, front, polled, history, probe >>

\* the instance count of both draw_instanced calls: NUM_LIGHTS as u32
INSTANCE_COUNT == NUM_LIGHTS

\* "Apply light": renderer.draw_instanced(&(&light, &context), NUM_LIGHTS, 0, &res_buffer).unwrap()
DrawLight ==
    /\ pc = "draw_light"
    /\ \/ /\ UnwrapOk("draw_light", AfterStmt(pc))
          /\ cmdbuf' = Append(cmdbuf, DrawCmd("light", INSTANCE_COUNT, "res_buffer"))
       \/ /\ UnwrapErr("draw_light")
          /\ UNCHANGED cmdbuf
    /\ UNCHANGED << seed, textures, programs, batch, light_pos_buffer, light_pos_vec,
                    debug_buf, time, front, polled, last_sel, quit_event, frame, probe >>

\* "Draw light emitters": renderer.draw_instanced(&(&emitter, &context), NUM_LIGHTS, 0, &res_buffer).unwrap()
DrawEmitter ==
    /\ pc = "draw_emitter"
    /\ \/ /\ UnwrapOk("draw_emitter", AfterStmt(pc))
          /\ cmdbuf' = Append(cmdbuf, DrawCmd("emitter", INSTANCE_COUNT, "res_buffer"))
       \/ /\ UnwrapErr("draw_emitter")
          /\ UNCHANGED cmdbuf
    /\ UNCHANGED << seed, textures, programs, batch, light_pos_buffer, light_pos_vec,
                    debug_buf, time, front, polled, last_sel, quit_event, frame, probe >>

\* the texture `blit.params.tex = (texture_frame.clone(), ...)` binds
ResultTex(cur) == "frame"

\* "Show the result": clear the window; blit.params.tex = texture_frame
ShowResult ==
    /\ pc = "show_result"
    /\ cmdbuf' = Append(cmdbuf, ClearCmd({"COLOR", "DEPTH"}, "window"))
    /\ batch' = [batch EXCEPT !["blit"].tex = ResultTex(@)]
    /\ pc' = AfterStmt(pc)
    /\ UNCHANGED << seed, textures, programs, light_pos_buffer, light_pos_vec, debug_buf,
                    time, front, polled, history, probe >>

\* renderer.draw(&(&blit, &context), &wrap).unwrap(), in either arm
DrawBlit ==
    /\ pc \in {"dbg_blit", "blit_result"}
    /\ \/ /\ UnwrapOk(pc, AfterStmt(pc))
          /\ cmdbuf' = Append(cmdbuf, DrawCmd("blit", 0, "window"))
       \/ /\ UnwrapErr(pc)
          /\ UNCHANGED cmdbuf
    /\ UNCHANGED << seed, textures, programs, batch, light_pos_buffer, light_pos_vec,
                    debug_buf, time, front, polled, last_sel, quit_event, frame, probe >>

(***************************************************************************)
(* Execution of the command buffer by the device.  A texture's `layers`    *)
(* are the passes that contribute to a pixel every pass covers: a clear    *)
(* leaves none, a blended (Add) draw adds its own to those present, an     *)
(* unblended draw replaces them, and the blit's full-screen quad copies    *)
(* the texture it samples.                                                 *)
(***************************************************************************)
ExecClear(cmd, tex) ==
    LET fr == Frame(cmd.target)
    IN  [n \in DOMAIN tex |->
            IF \/ ("COLOR" \in cmd.mask /\ n \in fr.colors)
               \/ ("DEPTH" \in cmd.mask /\ n = fr.depth)
            THEN [tex[n] EXCEPT !.src = "-", !.layers = {}]
            ELSE tex[n]]

ExecDraw(cmd, tex) ==
    LET fr == Frame(cmd.target)
        st == DrawState(cmd.batch)
        own == {<<cmd.batch, cmd.frame>>}
    IN  [n \in DOMAIN tex |->
            IF n \in fr.colors
            THEN IF cmd.batch = "blit"
                 THEN [tex[n] EXCEPT !.src = cmd.tex, !.layers = tex[cmd.tex].layers]
                 ELSE IF st.blend = "Add"
                      THEN [tex[n] EXCEPT !.layers = @ \cup own]
                      ELSE [tex[n] EXCEPT !.layers = own]
            ELSE IF n = fr.depth /\ st.depth_write
                 THEN [tex[n] EXCEPT !.layers = own]
                 ELSE tex[n]]

Exec(cmd, tex) == IF cmd.op = "clear" THEN ExecClear(cmd, tex) ELSE ExecDraw(cmd, tex)

RECURSIVE Run(_, _)
Run(cmds, tex) == IF cmds = << >> THEN tex ELSE Run(Tail(cmds), Exec(Head(cmds), tex))

\* device.submit(renderer.as_buffer()); renderer.reset()
Submit ==
    /\ pc = "submit"
    /\ textures' = Run(cmdbuf, textures)
    /\ cmdbuf' = << >>
    /\ pc' = "swap"
    /\ UNCHANGED << seed, programs, batch, light_pos_buffer, light_pos_vec, debug_buf,
                    time, front, polled, history, probe >>

\* wrap.window.swap_buffers(); device.after_frame(); factory.cleanup(); and the
\* loop starts its next iteration
SwapBuffers ==
    /\ pc = "swap"
    /\ front' = [src |-> textures["back"].src, layers |-> textures["back"].layers]
    /\ pc' = "poll"
    /\ frame' = 1 - frame
    /\ attempts' = [o \in FallibleOps |-> IF o \in DrawOps THEN 0 ELSE attempts[o]]
    /\ UNCHANGED << seed, textures, programs, batch, light_pos_buffer, light_pos_vec,
                    debug_buf, time, cmdbuf, polled, last_sel, quit_event, failed, probe >>

Next ==
    \/ InitWindow
    \/ CreateTexture
    \/ GenSeed
    \/ LinkProgram
    \/ MakeBatch
    \/ CreateLightBuffer
    \/ PollEvent
    \/ PollDone
    \/ UpdateCamera
    \/ UpdateLights
    \/ ClearGBuffer
    \/ DrawTerrain
    \/ MatchDebugBuf
    \/ ShowDebug
    \/ ClearResBuffer
    \/ DrawLight
    \/ DrawEmitter
    \/ ShowResult
    \/ DrawBlit
    \/ Submit
    \/ SwapBuffers

Spec == Init /\ [][Next]_vars

(***************************************************************************)
(* The numeric routines on their own: a behaviour applies one of them once *)
(* to inputs the program can pass it and records the result in `probe`.    *)
(***************************************************************************)
main_vars ==
    << pc, seed, textures, programs, batch, light_pos_buffer, light_pos_vec,
       debug_buf, time, cmdbuf, front, polled, last_sel, quit_event, failed,
       frame, attempts >>

ApplyColor ==
    /\ probe.fn = "none"
    /\ \E h \in Heights :
          probe' = [fn |-> "color", seed |-> 0, a |-> h, b |-> 0,
                    out |-> calculate_color(h)]
    /\ UNCHANGED main_vars

ApplyNormal ==
    /\ probe.fn = "none"
    /\ \E s \in Seeds, x \in PlaneCoords, y \in PlaneCoords :
          probe' = [fn |-> "normal", seed |-> s, a |-> x, b |-> y,
                    out |-> calculate_normal(s, x, y)]
    /\ UNCHANGED main_vars

ApplyVertex ==
    /\ probe.fn = "none"
    /\ \E s \in Seeds, x \in PlaneCoords, y \in PlaneCoords :
          LET v == TerrainVertex(s, x, y)
          IN  probe' = [fn |-> "vertex", seed |-> s, a |-> x, b |-> y,
                        out |-> v.pos \o v.normal \o v.color]
    /\ UNCHANGED main_vars

ApplyLight ==
    /\ probe.fn = "none"
    /\ \E s \in Seeds, i \in LightIds, t \in Times :
          probe' = [fn |-> "light", seed |-> s, a |-> i, b |-> t,
                    out |-> LightPos(s, i, t, <<0, 0, 0, 0>>)]
    /\ UNCHANGED main_vars

NextFn ==
    \/ ApplyColor
    \/ ApplyNormal
    \/ ApplyVertex
    \/ ApplyLight

SpecFn == Init /\ [][NextFn]_vars

(***************************************************************************)
(* Properties.                                                             *)
(***************************************************************************)
IsClearOf(c, target) == c.op = "clear" /\ c.target = target

IsDrawOf(c, b) == c.op = "draw" /\ c.batch = b

\* the commands recorded before position k of the command buffer
Before(k) == { cmdbuf[j] : j \in 1 .. (k - 1) }

IsGClear(c) == IsClearOf(c, "g_buffer")
IsTerrainDraw(c) == IsDrawOf(c, "terrain") /\ c.target = "g_buffer"
IsLightDraw(c) == IsDrawOf(c, "light")
IsEmitterDraw(c) == IsDrawOf(c, "emitter")
IsBlit(c) == IsDrawOf(c, "blit")

\* the recorded frame, as (operation, batch, target) triples
Shape(cmds) == [k \in 1 .. Len(cmds) |-> << cmds[k].op, cmds[k].batch, cmds[k].target >>]

\* C1: in a frame rendered with no debug buffer selected the commands are
\* recorded in the order: clear of the geometry buffer, terrain draw into it,
\* ..., light draw of NUM_LIGHTS instances into the result buffer, ..., blit of
\* the result texture to the window.  No light draw of a frame precedes that
\* frame's terrain draw, no blit precedes that frame's light draw.
C1_PassOrder ==
    /\ \A k \in 1 .. Len(cmdbuf) : cmdbuf[k].frame = frame
    /\ \A k \in 1 .. Len(cmdbuf) :
          /\ IsTerrainDraw(cmdbuf[k]) => (\E c \in Before(k) : IsGClear(c))
          /\ IsLightDraw(cmdbuf[k]) =>
                /\ (\E c \in Before(k) : IsTerrainDraw(c))
                /\ cmdbuf[k].instances = NUM_LIGHTS
                /\ cmdbuf[k].target = "res_buffer"
          /\ (IsBlit(cmdbuf[k]) /\ debug_buf = "None") =>
                /\ (\E c \in Before(k) : IsLightDraw(c))
                /\ cmdbuf[k].tex = "frame"
                /\ cmdbuf[k].target = "window"
    /\ (pc = "submit" /\ debug_buf = "None") =>
          Shape(cmdbuf) = << <<"clear", "-", "g_buffer">>, <<"draw", "terrain", "g_buffer">>,
                             <<"clear", "-", "res_buffer">>, <<"draw", "light", "res_buffer">>,
                             <<"draw", "emitter", "res_buffer">>, <<"clear", "-", "window">>,
                             <<"draw", "blit", "window">> >>

C1_Witness ==
    /\ pc = "submit"
    /\ debug_buf = "None"
    /\ \E k \in 1 .. Len(cmdbuf) : IsBlit(cmdbuf[k]) /\ (\E c \in Before(k) : IsLightDraw(c))

\* the buffer a selection key stands for
KeyTexture(key) ==
    CASE key = "Numpad1" -> "pos"
      [] key = "Numpad2" -> "normal"
      [] key = "Numpad3" -> "diffuse"
      [] key = "Numpad4" -> "depth"
      [] key \in {"Numpad0", "none"} -> "frame"

\* C2: the texture blitted to the window in a frame is the one the latest
\* selection key processed so far stands for (1: position, 2: normal, 3: diffuse,
\* 4: depth, 0 or no key yet: the result); the selection persists from frame to
\* frame, and the blit's initial binding to the position texture never decides.
C2_ShownBuffer ==
    /\ debug_buf = (IF KeyTexture(last_sel) = "frame" THEN "None" ELSE KeyTexture(last_sel))
    /\ \A k \in 1 .. Len(cmdbuf) : IsBlit(cmdbuf[k]) => cmdbuf[k].tex = KeyTexture(last_sel)
    /\ pc = "swap" => textures["back"].src = KeyTexture(last_sel)
    /\ (pc = "poll" /\ polled = 0 /\ front.src # "-") => front.src = KeyTexture(last_sel)

C2_Witness ==
    /\ pc = "swap"
    /\ front.src = "normal"
    /\ last_sel = "Numpad2"
    /\ textures["back"].src = "normal"

\* C6: in every frame without a debug selection the result buffer's color is
\* cleared before the light pass, the light and emitter passes blend additively,
\* and the result shown is exactly that frame's light and emitter
\* contributions: nothing of an earlier frame remains.
C6_ResultIsThisFrame ==
    /\ \A k \in 1 .. Len(cmdbuf) :
          (IsLightDraw(cmdbuf[k]) \/ IsEmitterDraw(cmdbuf[k])) =>
             /\ DrawState(cmdbuf[k].batch).blend = "Add"
             /\ \E j \in 1 .. (k - 1) :
                   /\ IsClearOf(cmdbuf[j], "res_buffer")
                   /\ "COLOR" \in cmdbuf[j].mask
                   /\ cmdbuf[j].frame = cmdbuf[k].frame
    /\ (pc = "swap" /\ debug_buf = "None") =>
          /\ textures["frame"].layers = {<<"light", frame>>, <<"emitter", frame>>}
          /\ textures["back"].src = "frame"
          /\ textures["back"].layers = {<<"light", frame>>, <<"emitter", frame>>}

\* a result frame that follows a debug frame that follows a result frame
C6_Witness ==
    /\ pc = "swap"
    /\ debug_buf = "None"
    /\ front.src = "pos"
    /\ textures["back"].layers = {<<"light", frame>>, <<"emitter", frame>>}

\* set-up is over: main has reached its loop
InLoop == batch["emitter"].made

Stopped == pc \in {"exited", "panicked"}

\* the steps of the loop body other than the light update
LoopStep ==
    \/ PollEvent \/ PollDone \/ UpdateCamera \/ ClearGBuffer \/ DrawTerrain
    \/ MatchDebugBuf \/ ShowDebug \/ ClearResBuffer \/ DrawLight \/ DrawEmitter
    \/ ShowResult \/ DrawBlit \/ Submit \/ SwapBuffers

\* C3, as stated: once in the loop, main stops only on a Closed or Escape
\* event (without one the loop renders frames forever).
C3_StopsOnlyOnQuit == (InLoop /\ Stopped) => quit_event

\* C3, amended: a Closed or Escape event ends the loop at once and nothing is
\* recorded, submitted or swapped afterwards; without such an event the loop
\* goes on rendering frame after frame, unless a draw call returns an error,
\* which aborts main.
C3_QuitOrAbort ==
    /\ [](quit_event <=> pc = "exited")
    /\ [][quit_event => UNCHANGED vars]_vars
    /\ [][(InLoop /\ ~ Stopped /\ Stopped') =>
             \/ pc = "poll" /\ quit_event' /\ UNCHANGED << cmdbuf, gpu >>
             \/ pc \in DrawOps /\ failed' = pc]_vars
    /\ []((InLoop /\ ~ Stopped) => (pc = "update_lights" \/ ENABLED LoopStep))
    /\ [][pc = "swap" => pc' = "poll"]_vars

\* the loop is left on a quit event that follows another event of the same
\* poll, after a frame has been shown
C3_Witness ==
    /\ pc = "exited"
    /\ quit_event
    /\ front.src = "frame"
    /\ polled = 2

\* position of a set-up step in program order
SetupIndex(op) == CHOOSE j \in 1 .. Len(SetupOrder) : SetupOrder[j] = op

\* C7: every fallible graphics call is attempted exactly once (a draw: once per
\* frame); when one returns an error main aborts there: the call is not
\* retried and no later operation is executed.
C7_NoRetryAbortOnError ==
    /\ \A op \in FallibleOps : attempts[op] <= 1
    /\ \A op \in FallibleSetup :
          attempts[op] = (IF \/ InLoop
                             \/ pc = "emitter_batch" /\ op # "emitter_batch"
                             \/ failed \in FallibleSetup /\ SetupIndex(op) <= SetupIndex(failed)
                             \/ pc \in Range(SetupOrder) /\ SetupIndex(op) < SetupIndex(pc)
                          THEN 1 ELSE 0)
    /\ (failed # "-") <=> (pc = "panicked")
    /\ pc = "panicked" =>
          /\ attempts[failed] = 1
          /\ ~ ENABLED Next
    /\ failed \in DrawOps =>
          /\ cmdbuf # << >>
          /\ \A k \in 1 .. Len(cmdbuf) : cmdbuf[k].frame = frame
          /\ failed = "draw_terrain" => ~ \E k \in 1 .. Len(cmdbuf) : cmdbuf[k].op = "draw"
          /\ failed = "draw_light" => ~ \E k \in 1 .. Len(cmdbuf) : cmdbuf[k].target # "g_buffer" /\ cmdbuf[k].op = "draw"
          /\ failed \in {"dbg_blit", "blit_result"} => ~ \E k \in 1 .. Len(cmdbuf) : IsBlit(cmdbuf[k])
    /\ failed = "tex_depth" => ~ textures["depth"].created /\ ~ textures["frame"].created
    /\ failed = "light_link" => ~ programs["light"].linked /\ ~ batch["light"].made

C7_Witness ==
    /\ pc = "panicked"
    /\ failed = "draw_emitter"
    /\ front.src = "frame"

\* C8: the light-position buffer, light_pos_vec, the instance count of both
\* instanced draws and the uniform-block arrays of the light and emitter
\* vertex shaders all have NUM_LIGHTS (250) elements; so every instance id of
\* an instanced draw indexes the buffer, and the buffer holds light_pos_vec,
\* the current frame's positions, from before the frame's instanced draws
\* until the frame is submitted.
C8_LightCountConsistent ==
    /\ NUM_LIGHTS = 250
    /\ LIGHT_VS_NUM_LIGHTS = NUM_LIGHTS
    /\ EMITTER_VS_NUM_LIGHTS = NUM_LIGHTS
    /\ DOMAIN light_pos_vec = 0 .. (NUM_LIGHTS - 1)
    /\ light_pos_buffer.created => light_pos_buffer.len = NUM_LIGHTS
    /\ \A k \in 1 .. Len(cmdbuf) :
          (IsLightDraw(cmdbuf[k]) \/ IsEmitterDraw(cmdbuf[k])) =>
             /\ cmdbuf[k].instances = NUM_LIGHTS
             /\ cmdbuf[k].instances <= programs[cmdbuf[k].batch].num_lights
             /\ cmdbuf[k].instances <= light_pos_buffer.len
             /\ light_pos_buffer.written
             /\ \A i \in 0 .. (cmdbuf[k].instances - 1) :
                   /\ i \in DOMAIN light_pos_buffer.data
                   /\ light_pos_buffer.data[i] = light_pos_vec[i]
    /\ (pc = "submit" /\ \E k \in 1 .. Len(cmdbuf) : IsLightDraw(cmdbuf[k])) =>
          \A i \in LightIds :
             light_pos_buffer.data[i] = LightPos(seed, i, time, <<0, 0, 0, 0>>)

\* both instanced draws of a frame whose clock reading differs from the first frame's
C8_Witness ==
    /\ pc = "submit"
    /\ time > 0
    /\ front.src # "-"
    /\ \E k \in 1 .. Len(cmdbuf) : IsEmitterDraw(cmdbuf[k])
    /\ light_pos_buffer.data[1] # LightPos(seed, 1, 0, <<0, 0, 0, 0>>)

\* the textures after the first k commands of the command buffer have run
After(k) == Run(SubSeq(cmdbuf, 1, k), textures)

\* C10: the result buffer's depth plane is the geometry buffer's depth texture;
\* the result buffer is cleared for color only and the light and emitter
\* batches depth-test LessEqual without depth writes; so the depth the terrain
\* pass leaves is unchanged by the result clear, the light and the emitter pass.
C10_DepthOnlyFromTerrain ==
    /\ RES_BUFFER.depth = G_BUFFER.depth
    /\ \A b \in {"light", "emitter"} :
          DrawState(b).depth_test = "LessEqual" /\ ~ DrawState(b).depth_write
    /\ pc = "submit" =>
          \A k \in 1 .. Len(cmdbuf) :
             /\ (cmdbuf[k].target = "res_buffer") =>
                   /\ After(k)["depth"] = After(k - 1)["depth"]
                   /\ After(k)["depth"].layers = {<<"terrain", frame>>}
             /\ IsClearOf(cmdbuf[k], "res_buffer") => cmdbuf[k].mask = {"COLOR"}
    /\ pc = "swap" => textures["depth"].layers = {<<"terrain", frame>>}

C10_Witness ==
    /\ pc = "swap"
    /\ debug_buf = "None"
    /\ textures["depth"].layers = {<<"terrain", frame>>}
    /\ textures["frame"].layers = {<<"light", frame>>, <<"emitter", frame>>}

\* C4, as stated: the height of a light is the noise field at its normalized
\* point scaled by the terrain z extent.
C4_HeightIsScaledNoise ==
    probe.fn = "light" =>
        probe.out[3] =
            TERRAIN_SCALE[3] * perlin2(probe.seed, probe.out[1] \div TERRAIN_SCALE[1],
                                       probe.out[2] \div TERRAIN_SCALE[2])

\* C4, amended: light i of N = NUM_LIGHTS is placed at (r cos theta, r sin theta)
\* with r = 1 - i*i/(N*N) and theta = 0.2*time + i, scaled by the terrain
\* extents (25, 25); its height is the noise field at that normalized point
\* scaled by the terrain z extent, plus 0.5.  0 < r <= 1, r strictly decreases
\* with i, and x and y stay within [-25, 25].
C4_LightPlacement ==
    probe.fn = "light" =>
        LET i == probe.a
            N2 == NUM_LIGHTS * NUM_LIGHTS
            theta == (2 * probe.b) \div 10 + i * Q
            x == ((N2 - i * i) * Cos(theta)) \div N2
            y == ((N2 - i * i) * Sin(theta)) \div N2
        IN  /\ probe.out[1] = 25 * x
            /\ probe.out[2] = 25 * y
            /\ probe.out[3] = 25 * perlin2(probe.seed, x, y) + Q \div 2
            /\ 0 < N2 - i * i /\ N2 - i * i <= N2
            /\ \A j \in LightIds : j < i => LightRadius(i) < LightRadius(j)
            /\ Abs(probe.out[1]) <= 25 * Q
            /\ Abs(probe.out[2]) <= 25 * Q

\* the outermost-index light, at a later clock reading, over terrain that is
\* not at height 0
C4_Witness ==
    /\ probe.fn = "light"
    /\ probe.a = NUM_LIGHTS - 1
    /\ probe.b > 0
    /\ probe.out[3] # Q \div 2
    /\ probe.out[1] # 0

C9_ColorBands ==
    /\ probe.fn = "color" =>
          LET h == probe.a
          IN  /\ h > 8 * Q => probe.out = <<9000, 9000, 9000>>
              /\ (0 < h /\ h <= 8 * Q) => probe.out = <<7000, 7000, 7000>>
              /\ (-5 * Q < h /\ h <= 0) => probe.out = <<2000, 7000, 2000>>
              /\ h <= -5 * Q => probe.out = <<2000, 2000, 7000>>
    /\ probe.fn = "vertex" =>
          /\ probe.out[3] = 25 * perlin2(probe.seed, probe.a, probe.b)
          /\ << probe.out[7], probe.out[8], probe.out[9] >> = calculate_color(probe.out[3])

\* a height on the border between two bands
C9_Witness ==
    /\ probe.fn = "color"
    /\ probe.a = 8 * Q
    /\ probe.out = GREY

\* the planes of the result buffer: its color texture and its depth plane
ResultPlanes == RES_BUFFER.colors \cup {RES_BUFFER.depth}

\* C11, as stated: a frame in which a debug buffer is selected leaves the
\* contents of the result buffer unchanged.
C11_ResultBufferUnchanged ==
    (pc = "submit" /\ debug_buf # "None") =>
        \A n \in ResultPlanes : Run(cmdbuf, textures)[n] = textures[n]

\* C11, amended: in a frame in which a debug buffer is selected the geometry
\* buffer is cleared and the terrain pass runs before the blit, so the buffer
\* shown is the current frame's; no result-buffer clear, light pass or emitter
\* pass is recorded, and the frame leaves the result buffer's color texture
\* unchanged.  The result buffer's depth plane is the geometry buffer's depth
\* texture, which the frame clears and the terrain pass rewrites.
C11_DebugFrame ==
    /\ debug_buf # "None" =>
          /\ \A k \in 1 .. Len(cmdbuf) :
                /\ cmdbuf[k].target # "res_buffer"
                /\ ~ IsLightDraw(cmdbuf[k])
                /\ ~ IsEmitterDraw(cmdbuf[k])
                /\ IsBlit(cmdbuf[k]) =>
                      /\ \E c \in Before(k) : IsGClear(c) /\ c.frame = frame
                      /\ \E c \in Before(k) : IsTerrainDraw(c) /\ c.frame = frame
                      /\ cmdbuf[k].tex = debug_buf
          /\ pc = "submit" =>
                /\ \A n \in RES_BUFFER.colors : Run(cmdbuf, textures)[n] = textures[n]
                /\ Run(cmdbuf, textures)[RES_BUFFER.depth].layers = {<<"terrain", frame>>}
                /\ Run(cmdbuf, textures)[RES_BUFFER.depth] # textures[RES_BUFFER.depth]
          /\ pc = "swap" =>
                /\ textures[debug_buf].layers = {<<"terrain", frame>>}
                /\ textures["back"].src = debug_buf
                /\ textures["back"].layers = {<<"terrain", frame>>}

\* a debug frame that follows a result frame: the lit result of the earlier
\* frame is still in the result texture while the normal buffer is shown
C11_Witness ==
    /\ pc = "swap"
    /\ debug_buf = "normal"
    /\ textures["back"].src = "normal"
    /\ textures["frame"].layers = {<<"light", 1 - frame>>, <<"emitter", 1 - frame>>}

====
